---- MODULE Spec2Model ----
(***************************************************************************)
(* Battle of Bytes auction backend (src/backend_api.py).                   *)
(*                                                                         *)
(* The persistence store is the shared state; every request handler and    *)
(* the start-up routine is a process whose steps are its database round    *)
(* trips.  A transaction's writes reach the store at its commit; what a    *)
(* handler read earlier lives in its locals (the ORM objects it loaded).   *)
(* The code takes no lock and issues no SELECT ... FOR UPDATE, so between  *)
(* two round trips of one handler any other handler may run.  What a       *)
(* handler does after its last read or commit (log_activity and the        *)
(* broadcasts that follow it) is one step.  A commit may be refused by     *)
(* the store: the handler's except branch then runs.                       *)
(***************************************************************************)
EXTENDS Integers, Sequences, FiniteSets, TLC

(* ------------------------------------------------------------------ *)
(* Bounds of the model                                                 *)
(* ------------------------------------------------------------------ *)
NumReq == 2        \* requests and job runs taken up over the life of the store
MaxUpsets == 1     \* refused commits (StorageFailure) plus restarts

(* ------------------------------------------------------------------ *)
(* Program constants                                                   *)
(* ------------------------------------------------------------------ *)
retries == 5       \* initialize_database: retries = 5

\* seed_data's player list, cut to its first two rows (id, base_price).
SeedPlayers == << [id |-> 1, base_price |-> 10000],
                  [id |-> 2, base_price |-> 12000] >>

\* seed_data's poll teams, cut to the first two.
SeedTeams == {"Byte Busters", "Syntax Samurai"}

\* seed_data's people list, one row per role tag.
SeedPeople == << "Head Coordinator", "Bidding Team", "Faculty Advisor" >>

None == "None"

Main == 0                      \* the start-up routine (start_server)
Req == 1..NumReq               \* request handlers
Procs == 0..NumReq

\* Inputs of POST /api/bid as <<player_id, bid_amount>>; 99 matches no
\* player.
BidInputs == { <<1, 10000>>, <<1, 10001>>, <<1, 11000>>, <<1, 12000>>,
               <<2, 11000>>, <<2, 12500>>, <<99, 11000>> }
BidderOf(r) == ToString(r)     \* the caller's bidder_name, one per request

PlayerIds == {SeedPlayers[i].id : i \in DOMAIN SeedPlayers}

VARIABLES
    players,     \* table players: id -> row
    bids,        \* table bids: sequence of rows, in insertion order
    bidSeq,      \* the bids.id autoincrement sequence
    poll,        \* table poll: team_name -> votes
    people,      \* table people: sequence of role tags, one per row
    settings,    \* table settings: id -> end_time
    activity,    \* table activity_log, in insertion order
    emitted,     \* socketio broadcasts, in emission order
    pc,          \* where each process stands
    loc,         \* each process's locals
    result,      \* the response of each request
    attempt,     \* initialize_database: loop index i
    seedNo,      \* seed_data calls begun so far (stands for the clock)
    upsets       \* commits refused and restarts so far

vars == << players, bids, bidSeq, poll, people, settings, activity, emitted,
           pc, loc, result, attempt, seedNo, upsets >>

store == << players, bids, bidSeq, poll, people, settings, activity >>

NoLoc == [pid |-> 0, amount |-> 0, cur |-> 0, tot |-> 0,
          quiet |-> FALSE, started |-> 0,
          team |-> "", votes |-> 0, total |-> 0,
          before |-> [players |-> {}, bids |-> 0, people |-> 0],
          insPlayers |-> FALSE, insTeams |-> FALSE,
          insPeople |-> FALSE, insSetting |-> FALSE, seed |-> 0]

EmptyTable == [k \in {} |-> 0]

Init ==
    /\ players = EmptyTable
    /\ bids = << >>
    /\ bidSeq = 0
    /\ poll = EmptyTable
    /\ people = << >>
    /\ settings = EmptyTable
    /\ activity = << >>
    /\ emitted = << >>
    /\ pc = [q \in Procs |-> IF q = Main THEN "create_all" ELSE "idle"]
    /\ loc = [q \in Procs |-> NoLoc]
    /\ result = [q \in Procs |-> "none"]
    /\ attempt = 0
    /\ seedNo = 0
    /\ upsets = 0

Serving == pc[Main] = "serving"

\* No request other than r is being served.
Alone(r) == \A o \in Req \ {r} : pc[o] \in {"idle", "done"}

\* How many requests other than r have been taken up so far.
Started(r) == Cardinality({o \in Req \ {r} : pc[o] # "idle"})

(* ------------------------------------------------------------------ *)
(* Faults: a commit the store refuses (OperationalError and the like). *)
(* ------------------------------------------------------------------ *)
CanFault == upsets < MaxUpsets

(* ------------------------------------------------------------------ *)
(* seed_data                                                           *)
(* ------------------------------------------------------------------ *)
\* The Player rows seed_data builds: current_bid = base_price, no bidder.
SeededPlayers ==
    [p \in PlayerIds |->
        LET row == CHOOSE i \in DOMAIN SeedPlayers : SeedPlayers[i].id = p
        IN [base_price |-> SeedPlayers[row].base_price,
            current_bid |-> SeedPlayers[row].base_price,
            highest_bidder |-> None,
            total_bids |-> 0]]

\* The Poll rows seed_data builds: votes default to 0.
SeededPoll == [t \in SeedTeams |-> 0]

\* Where seed_data returns to: start-up goes on to serve, api_status
\* reads the setting again.
SeedReturn(q) == IF q = Main THEN "serving" ELSE "status_reread"

\* The places inside seed_data.
SeedPcs == {"seed_count", "seed_clear", "seed_poll", "seed_people",
            "seed_people_clear", "seed_setting", "seed_commit"}

\* No process other than q is inside seed_data.
SeedingAlone(q) == \A o \in Procs \ {q} : pc[o] \notin SeedPcs

\* What the store holds as seed_data is entered: the player ids and the
\* numbers of Bid and Person rows.
RowsStored == [players |-> DOMAIN players, bids |-> Len(bids),
               people |-> Len(people)]

\* Entering seed_data: the call counts as the clock reading for end_time.
SeedCall(q) ==
    /\ seedNo' = seedNo + 1
    /\ loc' = [loc EXCEPT ![q] = [NoLoc EXCEPT !.seed = seedNo + 1,
                                               !.quiet = SeedingAlone(q),
                                               !.before = RowsStored]]
    /\ pc' = [pc EXCEPT ![q] = "seed_count"]

\* except Exception: print, session.rollback(); finally Session.remove().
\* Whatever the transaction had pending is dropped; seed_data returns.
SeedRollback(q) ==
    /\ pc' = [pc EXCEPT ![q] = SeedReturn(q)]
    /\ loc' = [loc EXCEPT ![q] = NoLoc]

\* if session.query(Player).count() > 0
seed_data_count(q) ==
    /\ pc[q] = "seed_count"
    /\ pc' = [pc EXCEPT ![q] =
                IF DOMAIN players # {} THEN "seed_clear" ELSE "seed_poll"]
    /\ UNCHANGED << store, emitted, loc, result, attempt, seedNo, upsets >>

\* session.query(Bid).delete(); session.query(Player).delete(); commit
seed_data_clear(q) ==
    /\ pc[q] = "seed_clear"
    /\ \/ /\ bids' = << >>
          /\ players' = EmptyTable
          /\ pc' = [pc EXCEPT ![q] = "seed_poll"]
          /\ UNCHANGED << loc, upsets >>
       \/ /\ CanFault
          /\ upsets' = upsets + 1
          /\ SeedRollback(q)
          /\ UNCHANGED << bids, players >>
    /\ UNCHANGED << bidSeq, poll, people, settings, activity, emitted,
                    result, attempt, seedNo >>

\* session.add_all(players); session.query(Poll).count() == 0
\* The query autoflushes the pending Player rows: a row with the same
\* primary key already committed raises IntegrityError.
seed_data_poll(q) ==
    /\ pc[q] = "seed_poll"
    /\ IF DOMAIN players # {}
       THEN SeedRollback(q)
       ELSE /\ loc' = [loc EXCEPT ![q].insPlayers = TRUE,
                                  ![q].insTeams = (DOMAIN poll = {})]
            /\ pc' = [pc EXCEPT ![q] = "seed_people"]
    /\ UNCHANGED << store, emitted, result, attempt, seedNo, upsets >>

\* Faulty variant: the Person rows in the store are never noticed.
HasPeople_Never(rows) == FALSE

\* session.query(Person).count() > 0
HasPeople(rows) == Len(rows) > 0

\* session.add_all(teams); session.query(Person).count() > 0
\* The query autoflushes the pending Poll rows (team_name is unique).
seed_data_people(q) ==
    /\ pc[q] = "seed_people"
    /\ IF loc[q].insTeams /\ DOMAIN poll # {}
       THEN SeedRollback(q)
       ELSE /\ pc' = [pc EXCEPT ![q] =
                       IF HasPeople(people) THEN "seed_people_clear"
                                          ELSE "seed_setting"]
            /\ UNCHANGED loc
    /\ UNCHANGED << store, emitted, result, attempt, seedNo, upsets >>

\* Faulty variant: no primary key or unique constraint is enforced.
SeedConflict_Never(q) == FALSE

\* Whether the transaction's pending inserts collide with committed rows.
SeedConflict(q) ==
    \/ loc[q].insPlayers /\ DOMAIN players # {}
    \/ loc[q].insTeams /\ DOMAIN poll # {}
    \/ loc[q].insSetting /\ 1 \in DOMAIN settings

\* session.query(Person).delete(); session.commit()
\* This commit also writes the Player and Poll rows flushed before it.
seed_data_people_clear(q) ==
    /\ pc[q] = "seed_people_clear"
    /\ \/ /\ IF SeedConflict(q)
             THEN /\ SeedRollback(q)
                  /\ UNCHANGED << players, poll, people >>
             ELSE /\ players' = IF loc[q].insPlayers THEN SeededPlayers
                                                     ELSE players
                  /\ poll' = IF loc[q].insTeams THEN SeededPoll ELSE poll
                  /\ people' = << >>
                  /\ loc' = [loc EXCEPT ![q].insPlayers = FALSE,
                                        ![q].insTeams = FALSE]
                  /\ pc' = [pc EXCEPT ![q] = "seed_setting"]
          /\ UNCHANGED upsets
       \/ /\ CanFault
          /\ upsets' = upsets + 1
          /\ SeedRollback(q)
          /\ UNCHANGED << players, poll, people >>
    /\ UNCHANGED << bids, bidSeq, settings, activity, emitted, result,
                    attempt, seedNo >>

\* session.add_all(people); session.query(Setting).count() == 0
seed_data_setting(q) ==
    /\ pc[q] = "seed_setting"
    /\ loc' = [loc EXCEPT ![q].insPeople = TRUE,
                          ![q].insSetting = (DOMAIN settings = {})]
    /\ pc' = [pc EXCEPT ![q] = "seed_commit"]
    /\ UNCHANGED << store, emitted, result, attempt, seedNo, upsets >>

\* session.add(Setting(id=1, end_time=...)); session.commit()
seed_data_commit(q) ==
    /\ pc[q] = "seed_commit"
    /\ \/ /\ IF SeedConflict(q)
             THEN UNCHANGED << players, poll, people, settings >>
             ELSE /\ players' = IF loc[q].insPlayers THEN SeededPlayers
                                                     ELSE players
                  /\ poll' = IF loc[q].insTeams THEN SeededPoll ELSE poll
                  /\ people' = IF loc[q].insPeople THEN people \o SeedPeople
                                                   ELSE people
                  /\ settings' = IF loc[q].insSetting
                                    THEN [k \in {1} |-> loc[q].seed]
                                    ELSE settings
          /\ pc' = [pc EXCEPT ![q] = SeedReturn(q)]
          /\ loc' = [loc EXCEPT ![q] = NoLoc]
          /\ UNCHANGED upsets
       \/ /\ CanFault
          /\ upsets' = upsets + 1
          /\ SeedRollback(q)
          /\ UNCHANGED << players, poll, people, settings >>
    /\ UNCHANGED << bids, bidSeq, activity, emitted, result, attempt,
                    seedNo >>

(* ------------------------------------------------------------------ *)
(* Start-up: start_server -> initialize_database                       *)
(* ------------------------------------------------------------------ *)
\* Base.metadata.create_all(engine): succeeds, or raises OperationalError
\* and the loop sleeps and goes round; the for-else exits the process.
initialize_database_create_all ==
    /\ pc[Main] = "create_all"
    /\ \/ /\ pc' = [pc EXCEPT ![Main] = "migrate"]
          /\ attempt' = 0
       \/ /\ attempt' = attempt + 1
          /\ pc' = [pc EXCEPT ![Main] =
                      IF attempt + 1 = retries THEN "exited" ELSE "create_all"]
    /\ UNCHANGED << store, emitted, loc, result, seedNo, upsets >>

\* migrate_database() swallows every error; then seed_data() is called.
initialize_database_migrate ==
    /\ pc[Main] = "migrate"
    /\ SeedCall(Main)
    /\ UNCHANGED << store, emitted, result, attempt, upsets >>

\* The process is started again against the same store (DATABASE_URL
\* names a store that outlives the process), here between requests.
Restart ==
    /\ pc[Main] \in {"serving", "exited"}
    /\ \A r \in Req : pc[r] \in {"idle", "done"}
    /\ upsets < MaxUpsets
    /\ upsets' = upsets + 1
    /\ attempt' = 0
    /\ pc' = [pc EXCEPT ![Main] = "create_all"]
    /\ UNCHANGED << store, emitted, loc, result, seedNo >>

(* ------------------------------------------------------------------ *)
(* log_activity and the broadcasts                                     *)
(* ------------------------------------------------------------------ *)
\* ActivityLog(type=type, description=description); for a bid the
\* description names the bidder, the amount and the player.
ActivityEntry(type, who, amount, pid) ==
    [type |-> type, bidder_name |-> who, bid_amount |-> amount,
     player_id |-> pid]

\* socketio.emit('activity_update', {id, type, description, timestamp})
ActivityUpdate(id, type) == [event |-> "activity_update", id |-> id,
                             type |-> type]

\* socketio.emit('bid_update', {player_id, player_name, bidder_name,
\* bid_amount}); the player's name is determined by its id.
BidUpdate(pid, who, amount) ==
    [event |-> "bid_update", player_id |-> pid, player_name |-> pid,
     bidder_name |-> who, bid_amount |-> amount]

\* log_activity: add, commit, refresh, emit; on any error print, roll
\* back and return normally.  `then` is the broadcast the caller emits
\* right after log_activity returns.
log_activity(type, who, amount, pid, then) ==
    \/ /\ activity' = Append(activity, ActivityEntry(type, who, amount, pid))
       /\ emitted' = emitted \o << ActivityUpdate(Len(activity) + 1, type),
                                   then >>
       /\ UNCHANGED upsets
    \/ /\ CanFault
       /\ upsets' = upsets + 1
       /\ activity' = activity
       /\ emitted' = Append(emitted, then)

(* ------------------------------------------------------------------ *)
(* POST /api/bid: api_place_bid                                        *)
(* ------------------------------------------------------------------ *)
\* Faulty variant: only a non-positive amount is rejected.
BidRejected_NoFloor(amount, current_bid) == amount <= 0

\* Faulty variant: an amount equal to the current bid is let through.
BidRejected_Strict(amount, current_bid) == amount < current_bid

\* if bid_amount <= player.current_bid: 400
BidRejected(amount, current_bid) == amount <= current_bid

\* Faulty variant: highest_bidder is not written.
BidPlayerUpdate_NoBidder(row, who, amount, readTotal) ==
    [row EXCEPT !.current_bid = amount, !.total_bids = readTotal + 1]

\* player.current_bid = bid_amount; player.highest_bidder = bidder_name;
\* player.total_bids += 1, the last computed from the value that was read.
BidPlayerUpdate(row, who, amount, readTotal) ==
    [row EXCEPT !.current_bid = amount,
                !.highest_bidder = who,
                !.total_bids = readTotal + 1]

\* Bid(player_id=player_id, bidder_name=bidder_name, bid_amount=bid_amount)
BidRow(id, pid, who, amount) ==
    [id |-> id, player_id |-> pid, bidder_name |-> who, bid_amount |-> amount]

\* Faulty variant: the new row replaces the rows already stored.
BidInsert_Replace(rows, row) == << row >>

\* session.add(new_bid): one more row in the bids table.
BidInsert(rows, row) == Append(rows, row)

\* Faulty variant: the player UPDATE stays although the commit failed.
BidRollback_Partial(r) ==
    /\ players' = IF loc[r].pid \in DOMAIN players
                    THEN [players EXCEPT ![loc[r].pid] =
                            BidPlayerUpdate(@, BidderOf(r), loc[r].amount,
                                            loc[r].tot)]
                    ELSE players
    /\ UNCHANGED << bids, bidSeq >>

\* except Exception: session.rollback(): nothing of the transaction stays.
BidRollback(r) == UNCHANGED << players, bids, bidSeq >>

\* player = session.query(Player).filter_by(id=player_id).first() and the
\* two checks made on what was read.
api_place_bid_read(r, pid, amount) ==
    /\ Serving
    /\ pc[r] = "idle"
    /\ IF pid \notin DOMAIN players
       THEN /\ result' = [result EXCEPT ![r] = "NotFound"]
            /\ pc' = [pc EXCEPT ![r] = "done"]
            /\ loc' = [loc EXCEPT ![r].pid = pid, ![r].amount = amount]
       ELSE IF BidRejected(amount, players[pid].current_bid)
       THEN /\ result' = [result EXCEPT ![r] = "InvalidBid"]
            /\ pc' = [pc EXCEPT ![r] = "done"]
            /\ loc' = [loc EXCEPT ![r].pid = pid, ![r].amount = amount,
                                  ![r].cur = players[pid].current_bid]
       ELSE /\ pc' = [pc EXCEPT ![r] = "bid_commit"]
            /\ loc' = [loc EXCEPT ![r].pid = pid, ![r].amount = amount,
                                  ![r].cur = players[pid].current_bid,
                                  ![r].tot = players[pid].total_bids,
                                  ![r].quiet = Alone(r),
                                  ![r].started = Started(r)]
            /\ UNCHANGED result
    /\ UNCHANGED << store, emitted, attempt, seedNo, upsets >>

\* session.add(new_bid); session.commit(): the UPDATE of the player row
\* and the INSERT of the bid row reach the store together.  The UPDATE
\* matches no row when the player was deleted meanwhile, which raises;
\* any error is rolled back and answered with 500.
api_place_bid_commit(r) ==
    /\ pc[r] = "bid_commit"
    /\ \/ /\ IF loc[r].pid \in DOMAIN players
             THEN /\ players' = [players EXCEPT ![loc[r].pid] =
                                   BidPlayerUpdate(@, BidderOf(r),
                                                   loc[r].amount, loc[r].tot)]
                  /\ bids' = BidInsert(bids, BidRow(bidSeq + 1, loc[r].pid,
                                                    BidderOf(r), loc[r].amount))
                  /\ bidSeq' = bidSeq + 1
                  /\ pc' = [pc EXCEPT ![r] = "bid_log"]
                  /\ loc' = [loc EXCEPT ![r].quiet = FALSE, ![r].started = 0]
                  /\ UNCHANGED result
             ELSE /\ result' = [result EXCEPT ![r] = "StorageFailure"]
                  /\ pc' = [pc EXCEPT ![r] = "done"]
                  /\ loc' = [loc EXCEPT ![r].quiet = FALSE, ![r].started = 0]
                  /\ BidRollback(r)
          /\ UNCHANGED upsets
       \/ /\ CanFault
          /\ upsets' = upsets + 1
          /\ result' = [result EXCEPT ![r] = "StorageFailure"]
          /\ pc' = [pc EXCEPT ![r] = "done"]
          /\ loc' = [loc EXCEPT ![r].quiet = FALSE, ![r].started = 0]
          /\ BidRollback(r)
    /\ UNCHANGED << poll, people, settings, activity, emitted, attempt,
                    seedNo >>

\* log_activity('bid', ...); socketio.emit('bid_update', ...);
\* return {'success': True}
api_place_bid_log(r) ==
    /\ pc[r] = "bid_log"
    /\ log_activity("bid", BidderOf(r), loc[r].amount, loc[r].pid,
                    BidUpdate(loc[r].pid, BidderOf(r), loc[r].amount))
    /\ result' = [result EXCEPT ![r] = "success"]
    /\ pc' = [pc EXCEPT ![r] = "done"]
    /\ UNCHANGED << players, bids, bidSeq, poll, people, settings, loc,
                    attempt, seedNo >>

(* ------------------------------------------------------------------ *)
(* GET /api/status: api_status                                         *)
(* ------------------------------------------------------------------ *)
\* SELECT sum(players.current_bid): the sum over the given player ids.
RECURSIVE SumCurrentBid(_, _)
SumCurrentBid(table, ids) ==
    IF ids = {} THEN 0
    ELSE LET p == CHOOSE x \in ids : TRUE
         IN table[p].current_bid + SumCurrentBid(table, ids \ {p})

\* Faulty variant: the highest current_bid is reported, not the sum.
TotalValue_Max(table) ==
    IF DOMAIN table = {} THEN 0
    ELSE LET p == CHOOSE x \in DOMAIN table :
                     \A y \in DOMAIN table :
                         table[y].current_bid <= table[x].current_bid
         IN table[p].current_bid

\* total_value = session.query(func.sum(Player.current_bid)).scalar()
\* or 0: the sum is NULL over no rows and `or 0` turns that into 0.
TotalValue(table) ==
    IF DOMAIN table = {} THEN 0 ELSE SumCurrentBid(table, DOMAIN table)

\* setting = session.query(Setting).filter_by(id=1).first();
\* if not setting: seed_data(); else the two aggregates and the answer.
api_status_read(r) ==
    /\ Serving
    /\ pc[r] = "idle"
    /\ IF 1 \in DOMAIN settings
       THEN /\ result' = [result EXCEPT ![r] = "status"]
            /\ pc' = [pc EXCEPT ![r] = "done"]
            /\ loc' = [loc EXCEPT ![r].total = TotalValue(players)]
            /\ UNCHANGED seedNo
       ELSE /\ SeedCall(r)
            /\ UNCHANGED result
    /\ UNCHANGED << store, emitted, attempt, upsets >>

\* setting = session.query(Setting).filter_by(id=1).first() after the
\* seeding; setting.end_time on None raises and is answered with 500.
api_status_reread(r) ==
    /\ pc[r] = "status_reread"
    /\ IF 1 \in DOMAIN settings
       THEN /\ result' = [result EXCEPT ![r] = "status"]
            /\ loc' = [loc EXCEPT ![r].total = TotalValue(players)]
       ELSE /\ result' = [result EXCEPT ![r] = "error"]
            /\ UNCHANGED loc
    /\ pc' = [pc EXCEPT ![r] = "done"]
    /\ UNCHANGED << store, emitted, attempt, seedNo, upsets >>

(* ------------------------------------------------------------------ *)
(* POST /api/poll/vote: api_vote, and the midnight job reset_poll_votes *)
(* ------------------------------------------------------------------ *)
\* The team names a vote may carry; 'Code Trail' is not a seeded team.
VoteInputs == {"Byte Busters", "Syntax Samurai", "Code Trail"}

\* socketio.emit('poll_update', {})
PollUpdate == [event |-> "poll_update"]

\* Faulty variant: the counter is written although nothing was added.
VoteIncrement_Stuck(votes) == votes

\* team.votes += 1: the value written is computed from the value read.
VoteIncrement(votes) == votes + 1

\* Faulty variant: the refused vote is logged and broadcast all the same.
VoteRefuse_Logged(r, team) ==
    /\ activity' = Append(activity, ActivityEntry("poll", team, 0, 0))
    /\ emitted' = Append(emitted, PollUpdate)
    /\ UNCHANGED poll

\* if not team: return 404, before anything is written, logged or emitted.
VoteRefuse(r, team) == UNCHANGED << poll, activity, emitted >>

\* Faulty variant: only counters above one are cleared.
ResetVotes_Partial(table) ==
    [t \in DOMAIN table |-> IF table[t] > 1 THEN 0 ELSE table[t]]

\* session.query(Poll).update({Poll.votes: 0})
ResetVotes(table) == [t \in DOMAIN table |-> 0]

\* team = session.query(Poll).filter_by(team_name=...).first();
\* if not team: 404
api_vote_read(r, team) ==
    /\ Serving
    /\ pc[r] = "idle"
    /\ IF team \notin DOMAIN poll
       THEN /\ result' = [result EXCEPT ![r] = "NotFound"]
            /\ pc' = [pc EXCEPT ![r] = "done"]
            /\ loc' = [loc EXCEPT ![r].team = team]
            /\ VoteRefuse(r, team)
       ELSE /\ pc' = [pc EXCEPT ![r] = "vote_commit"]
            /\ loc' = [loc EXCEPT ![r].team = team, ![r].votes = poll[team]]
            /\ UNCHANGED << result, poll, activity, emitted >>
    /\ UNCHANGED << players, bids, bidSeq, people, settings, attempt, seedNo,
                    upsets >>

\* team.votes += 1; session.commit(); any error is rolled back and
\* answered with 500.
api_vote_commit(r) ==
    /\ pc[r] = "vote_commit"
    /\ \/ /\ poll' = [poll EXCEPT ![loc[r].team] = VoteIncrement(loc[r].votes)]
          /\ pc' = [pc EXCEPT ![r] = "vote_log"]
          /\ UNCHANGED << result, upsets >>
       \/ /\ CanFault
          /\ upsets' = upsets + 1
          /\ result' = [result EXCEPT ![r] = "StorageFailure"]
          /\ pc' = [pc EXCEPT ![r] = "done"]
          /\ UNCHANGED poll
    /\ UNCHANGED << players, bids, bidSeq, people, settings, activity,
                    emitted, loc, attempt, seedNo >>

\* log_activity('poll', f"Vote for {team_name}"); socketio.emit(
\* 'poll_update', {}); return {'success': True}
api_vote_log(r) ==
    /\ pc[r] = "vote_log"
    /\ log_activity("poll", loc[r].team, 0, 0, PollUpdate)
    /\ result' = [result EXCEPT ![r] = "voted"]
    /\ pc' = [pc EXCEPT ![r] = "done"]
    /\ UNCHANGED << players, bids, bidSeq, poll, people, settings, loc,
                    attempt, seedNo >>

\* reset_poll_votes, run by the scheduler's thread once the server is
\* up; r is the run.  UPDATE, commit, emit; except: rollback.
reset_poll_votes(r) ==
    /\ Serving
    /\ pc[r] = "idle"
    /\ \/ /\ poll' = ResetVotes(poll)
          /\ emitted' = Append(emitted, PollUpdate)
          /\ result' = [result EXCEPT ![r] = "reset"]
          /\ UNCHANGED upsets
       \/ /\ CanFault
          /\ upsets' = upsets + 1
          /\ result' = [result EXCEPT ![r] = "reset_failed"]
          /\ UNCHANGED << poll, emitted >>
    /\ pc' = [pc EXCEPT ![r] = "done"]
    /\ UNCHANGED << players, bids, bidSeq, people, settings, activity, loc,
                    attempt, seedNo >>

(* ------------------------------------------------------------------ *)
(* The specification                                                   *)
(* ------------------------------------------------------------------ *)
Next ==
    \/ initialize_database_create_all
    \/ initialize_database_migrate
    \/ Restart
    \/ \E q \in Procs :
          \/ seed_data_count(q)
          \/ seed_data_clear(q)
          \/ seed_data_poll(q)
          \/ seed_data_people(q)
          \/ seed_data_people_clear(q)
          \/ seed_data_setting(q)
          \/ seed_data_commit(q)
    \/ \E r \in Req :
          \/ \E in \in BidInputs : api_place_bid_read(r, in[1], in[2])
          \/ api_place_bid_commit(r)
          \/ api_place_bid_log(r)
          \/ api_status_read(r)
          \/ api_status_reread(r)

Spec == Init /\ [][Next]_vars

(* ------------------------------------------------------------------ *)
(* The GET endpoints                                                    *)
(* ------------------------------------------------------------------ *)
\* The player ids a GET /api/players/<id> may carry; 99 is not seeded.
DetailInputs == {1, 99}

\* Faulty variant: every team is removed, not only 'Code Trail'.
PollPurge_All(table) == EmptyTable

\* session.delete(code_trail); session.commit(): the poll table without
\* the 'Code Trail' row, if it had one.
PollPurge(table) == [t \in DOMAIN table \ {"Code Trail"} |-> table[t]]

\* The Person rows that are not Faculty Advisor rows.
NotFaculty(role) == role # "Faculty Advisor"

\* session.query(Person).filter_by(role='Faculty Advisor').all() is not
\* empty.
HasFaculty(rows) == \E i \in DOMAIN rows : ~NotFaculty(rows[i])

\* The faculty rows api_people adds, those of the seed list.
FacultyRows == SelectSeq(SeedPeople, LAMBDA role : ~NotFaculty(role))

\* GET /api/players: one SELECT.
api_players(r) ==
    /\ Serving
    /\ pc[r] = "idle"
    /\ result' = [result EXCEPT ![r] = "players"]
    /\ pc' = [pc EXCEPT ![r] = "done"]
    /\ UNCHANGED << store, emitted, loc, attempt, seedNo, upsets >>

\* GET /api/players/<id>: the player row, 404 without it, and its bids.
api_player_detail(r, pid) ==
    /\ Serving
    /\ pc[r] = "idle"
    /\ result' = [result EXCEPT ![r] =
                    IF pid \in DOMAIN players THEN "player" ELSE "NotFound"]
    /\ pc' = [pc EXCEPT ![r] = "done"]
    /\ UNCHANGED << store, emitted, loc, attempt, seedNo, upsets >>

\* GET /api/poll: a 'Code Trail' row is deleted and the deletion
\* committed, then the teams are listed.
api_poll(r) ==
    /\ Serving
    /\ pc[r] = "idle"
    /\ poll' = PollPurge(poll)
    /\ result' = [result EXCEPT ![r] = "poll"]
    /\ pc' = [pc EXCEPT ![r] = "done"]
    /\ UNCHANGED << players, bids, bidSeq, people, settings, activity,
                    emitted, loc, attempt, seedNo, upsets >>

\* GET /api/activity: one SELECT.
api_activity(r) ==
    /\ Serving
    /\ pc[r] = "idle"
    /\ result' = [result EXCEPT ![r] = "activity"]
    /\ pc' = [pc EXCEPT ![r] = "done"]
    /\ UNCHANGED << store, emitted, loc, attempt, seedNo, upsets >>

\* GET /api/people: the three SELECTs; with no faculty row found the
\* handler goes on to reseed the faculty.
api_people_read(r) ==
    /\ Serving
    /\ pc[r] = "idle"
    /\ IF HasFaculty(people)
       THEN /\ result' = [result EXCEPT ![r] = "people"]
            /\ pc' = [pc EXCEPT ![r] = "done"]
       ELSE /\ pc' = [pc EXCEPT ![r] = "people_delete"]
            /\ UNCHANGED result
    /\ UNCHANGED << store, emitted, loc, attempt, seedNo, upsets >>

\* session.query(Person).filter_by(role='Faculty Advisor').delete();
\* session.commit(); on an error the hardcoded faculty is returned.
api_people_delete(r) ==
    /\ pc[r] = "people_delete"
    /\ \/ /\ people' = SelectSeq(people, NotFaculty)
          /\ pc' = [pc EXCEPT ![r] = "people_insert"]
          /\ UNCHANGED << result, upsets >>
       \/ /\ CanFault
          /\ upsets' = upsets + 1
          /\ result' = [result EXCEPT ![r] = "people"]
          /\ pc' = [pc EXCEPT ![r] = "done"]
          /\ UNCHANGED people
    /\ UNCHANGED << players, bids, bidSeq, poll, settings, activity,
                    emitted, loc, attempt, seedNo >>

\* session.add_all(faculty_data); session.commit(); on an error the
\* hardcoded faculty is returned.
api_people_insert(r) ==
    /\ pc[r] = "people_insert"
    /\ \/ /\ people' = people \o FacultyRows
          /\ UNCHANGED upsets
       \/ /\ CanFault
          /\ upsets' = upsets + 1
          /\ UNCHANGED people
    /\ result' = [result EXCEPT ![r] = "people"]
    /\ pc' = [pc EXCEPT ![r] = "done"]
    /\ UNCHANGED << players, bids, bidSeq, poll, settings, activity,
                    emitted, loc, attempt, seedNo >>

\* The server with its GET endpoints next to the bids.
NextRead ==
    \/ Next
    \/ \E r \in Req :
          \/ api_players(r)
          \/ \E pid \in DetailInputs : api_player_detail(r, pid)
          \/ api_poll(r)
          \/ api_activity(r)
          \/ api_people_read(r)
          \/ api_people_delete(r)
          \/ api_people_insert(r)

SpecRead == Init /\ [][NextRead]_vars

\* The server is stopped and started again between requests by whoever
\* runs it; r is the slot the event takes.
Redeploy(r) ==
    /\ pc[Main] \in {"serving", "exited"}
    /\ pc[r] = "idle"
    /\ \A o \in Req \ {r} : pc[o] \in {"idle", "done"}
    /\ attempt' = 0
    /\ pc' = [pc EXCEPT ![Main] = "create_all", ![r] = "done"]
    /\ result' = [result EXCEPT ![r] = "restarted"]
    /\ UNCHANGED << store, emitted, loc, seedNo, upsets >>

\* The server over several runs of the process.
NextSeed ==
    \/ Next
    \/ \E r \in Req : Redeploy(r)

SpecSeed == Init /\ [][NextSeed]_vars

\* The poll service: start-up, votes and the scheduled reset.
NextPoll ==
    \/ initialize_database_create_all
    \/ initialize_database_migrate
    \/ Restart
    \/ seed_data_count(Main)
    \/ seed_data_clear(Main)
    \/ seed_data_poll(Main)
    \/ seed_data_people(Main)
    \/ seed_data_people_clear(Main)
    \/ seed_data_setting(Main)
    \/ seed_data_commit(Main)
    \/ \E r \in Req :
          \/ \E team \in VoteInputs : api_vote_read(r, team)
          \/ api_vote_commit(r)
          \/ api_vote_log(r)
          \/ reset_poll_votes(r)

SpecPoll == Init /\ [][NextPoll]_vars

(* ------------------------------------------------------------------ *)
(* Vocabulary of the properties                                        *)
(* ------------------------------------------------------------------ *)
\* Request r is between its read of the player row and its commit.
InSpan(r) == pc[r] = "bid_commit"

\* This step is r's bid transaction committing.
BidCommits(r) == pc[r] = "bid_commit" /\ pc'[r] = "bid_log"

\* This step is r's bid transaction failing to commit.
BidFails(r) == pc[r] = "bid_commit" /\ pc'[r] = "done"

\* This step is r's read of the player row and the checks on it.
BidReads(r) == pc[r] = "idle" /\ loc'[r].pid # 0

\* The Bid rows that reference player p.
BidsOf(p) == {i \in DOMAIN bids : bids[i].player_id = p}

\* Nothing but r has run since r read the player row.
AloneSinceRead(r) ==
    loc[r].quiet /\ Alone(r) /\ Started(r) = loc[r].started

BidEntries == {i \in DOMAIN activity : activity[i].type = "bid"}

Successes == {r \in Req : result[r] = "success"}

Quiescent == \A r \in Req : pc[r] \in {"idle", "done"}

(* ------------------------------------------------------------------ *)
(* C1  Per-player mutual exclusion of the read-validate-write span: a  *)
(* bid on a player commits only while no other request on that player  *)
(* is between its read and its commit, and the current_bid it was      *)
(* checked against is still the stored one when it commits.            *)
(* ------------------------------------------------------------------ *)
C1_BidSpanExclusive ==
    [][\A r \in Req :
          BidCommits(r) =>
             /\ \A o \in Req \ {r} : ~(InSpan(o) /\ loc[o].pid = loc[r].pid)
             /\ players[loc[r].pid].current_bid = loc[r].cur]_vars

(* ------------------------------------------------------------------ *)
(* C2  Two bids of 11000 and 12000 on player 1 standing at 10000, the  *)
(* only bids on it and with the store refusing nothing: once both are  *)
(* answered the player's current_bid is 12000 and its highest_bidder   *)
(* the 12000 bidder, whatever the interleaving.                        *)
(* ------------------------------------------------------------------ *)
C2_HigherBidWins ==
    \A r1, r2 \in Req :
        ( /\ r1 # r2
          /\ pc[r1] = "done" /\ pc[r2] = "done"
          /\ loc[r1].pid = 1 /\ loc[r1].amount = 11000
          /\ loc[r2].pid = 1 /\ loc[r2].amount = 12000
          /\ \A o \in Req \ {r1, r2} : loc[o].pid # 1
          /\ upsets = 0 )
        => /\ 1 \in DOMAIN players
           /\ players[1].current_bid = 12000
           /\ players[1].highest_bidder = BidderOf(r2)

(* ------------------------------------------------------------------ *)
(* C3  A bid that commits stores a current_bid strictly greater than   *)
(* the one stored just before its commit, so no bid lowers a player's  *)
(* current_bid.                                                        *)
(* ------------------------------------------------------------------ *)
C3_BidStrictlyRaises ==
    [][\A r \in Req :
          BidCommits(r) =>
             players'[loc[r].pid].current_bid
                > players[loc[r].pid].current_bid]_vars

(* ------------------------------------------------------------------ *)
(* C4  Every stored player has current_bid >= base_price.              *)
(* ------------------------------------------------------------------ *)
C4_BidAtLeastBase ==
    \A p \in DOMAIN players :
        players[p].current_bid >= players[p].base_price

\* A bid was accepted on player 1 and a later one written over it.
C4_Witness ==
    /\ 1 \in DOMAIN players
    /\ players[1].current_bid = 11000
    /\ \E i \in BidsOf(1) : bids[i].bid_amount = 12000

(* ------------------------------------------------------------------ *)
(* C5  Each player's total_bids equals the number of Bid rows that     *)
(* reference the player.                                               *)
(* ------------------------------------------------------------------ *)
C5_TotalBidsCountsRows ==
    \A p \in DOMAIN players :
        players[p].total_bids = Cardinality(BidsOf(p))

(* ------------------------------------------------------------------ *)
(* C6  A bid placement is all-or-nothing.  In every step a player's    *)
(* row changes exactly together with the insertion of the one Bid row  *)
(* that carries its new current_bid and highest_bidder; a Bid row is   *)
(* inserted only together with that change; and a bid whose            *)
(* transaction does not commit is answered as a failure, is finished   *)
(* (not retried) and leaves players and bids as they were.             *)
(* ------------------------------------------------------------------ *)
C6_BidAllOrNothing ==
    [][ /\ \A p \in DOMAIN players \cap DOMAIN players' :
              players'[p] # players[p] =>
                 /\ Len(bids') = Len(bids) + 1
                 /\ SubSeq(bids', 1, Len(bids)) = bids
                 /\ bids'[Len(bids')].player_id = p
                 /\ bids'[Len(bids')].bid_amount = players'[p].current_bid
                 /\ bids'[Len(bids')].bidder_name = players'[p].highest_bidder
        /\ Len(bids') > Len(bids) =>
              LET p == bids'[Len(bids')].player_id
              IN /\ p \in DOMAIN players \cap DOMAIN players'
                 /\ players'[p] # players[p]
                 /\ \A o \in DOMAIN players \ {p} :
                       o \in DOMAIN players' /\ players'[o] = players[o]
        /\ \A r \in Req :
              /\ (InSpan(r) /\ pc'[r] # pc[r]) =>
                    \/ BidCommits(r)
                    \/ /\ BidFails(r)
                       /\ result'[r] = "StorageFailure"
                       /\ players' = players
                       /\ bids' = bids
              /\ result[r] = "StorageFailure" =>
                    pc[r] = "done" /\ pc'[r] = "done" ]_vars

\* One bid committed and was answered, another was refused by the store.
C6_Witness ==
    \E r1, r2 \in Req :
        /\ result[r1] = "success"
        /\ result[r2] = "StorageFailure"
        /\ \E i \in DOMAIN bids : bids[i].bidder_name = BidderOf(r1)
        /\ \A i \in DOMAIN bids : bids[i].bidder_name # BidderOf(r2)

(* ------------------------------------------------------------------ *)
(* C7  Bid rows are immutable and permanent: every Bid row of a state  *)
(* is still there, unchanged, in the next state, and a row is added    *)
(* only by a bid placement that commits.                               *)
(* ------------------------------------------------------------------ *)
C7_BidRowsPermanent ==
    [][ /\ \A i \in DOMAIN bids : i \in DOMAIN bids' /\ bids'[i] = bids[i]
        /\ bids' # bids => \E r \in Req : BidCommits(r) ]_vars

(* C7 as amended: Bid rows are never updated and are added only by a   *)
(* bid placement that commits; the one operation that deletes them is  *)
(* seed_data's clearing commit, taken when seed_data finds the players *)
(* table non-empty, and it deletes all of them.                        *)
C7_BidRowsPermanentButForSeed ==
    [][ \/ /\ \A i \in DOMAIN bids : i \in DOMAIN bids' /\ bids'[i] = bids[i]
           /\ bids' # bids =>
                 \E r \in Req :
                    /\ BidCommits(r)
                    /\ bids' = Append(bids, BidRow(bidSeq', loc[r].pid,
                                                   BidderOf(r), loc[r].amount))
        \/ /\ bids' = << >>
           /\ \E q \in Procs : pc[q] = "seed_clear" /\ pc'[q] = "seed_poll" ]_vars

\* A bid was placed and answered, and a later seeding removed its row
\* while a second bid's row stands.
C7_Witness ==
    \E r1, r2 \in Req :
        /\ result[r1] = "success"
        /\ result[r2] = "success"
        /\ Len(bids) = 1
        /\ bids[1].bidder_name = BidderOf(r2)

(* ------------------------------------------------------------------ *)
(* C8  With no concurrent request and the store accepting the commit,  *)
(* a bid of a on an existing player whose stored current bid is c      *)
(* succeeds iff a > c: a <= c is answered InvalidBid, and a > c        *)
(* commits and leaves current_bid = a and highest_bidder = the caller. *)
(* ------------------------------------------------------------------ *)
C8_BidSucceedsIffGreater ==
    [][\A r \in Req :
          /\ (BidReads(r) /\ Alone(r) /\ loc'[r].pid \in DOMAIN players) =>
                LET c == players[loc'[r].pid].current_bid
                    a == loc'[r].amount
                IN /\ (a <= c) <=> (result'[r] = "InvalidBid")
                   /\ (a > c) <=> (pc'[r] = "bid_commit")
          /\ (InSpan(r) /\ AloneSinceRead(r) /\ pc'[r] # pc[r]
                 /\ upsets' = upsets) =>
                /\ BidCommits(r)
                /\ players'[loc[r].pid].current_bid = loc[r].amount
                /\ players'[loc[r].pid].highest_bidder = BidderOf(r)
                /\ loc[r].amount > players[loc[r].pid].current_bid
          /\ (pc[r] = "bid_log" /\ pc'[r] # pc[r]) =>
                result'[r] = "success" ]_vars

\* On player 1, fresh at 10000, a bid of 10000 was answered InvalidBid and
\* then a bid of 10001 succeeded, one after the other.
C8_Witness ==
    \E r1, r2 \in Req :
        /\ result[r1] = "InvalidBid" /\ loc[r1].pid = 1
        /\ loc[r1].amount = 10000 /\ loc[r1].cur = 10000
        /\ result[r2] = "success" /\ loc[r2].pid = 1
        /\ loc[r2].amount = 10001 /\ loc[r2].cur = 10000
        /\ players[1].current_bid = 10001
        /\ players[1].highest_bidder = BidderOf(r2)

(* ------------------------------------------------------------------ *)
(* C9  A rejected bid changes nothing.  The read step answers NotFound *)
(* exactly when the player id matches no player, and InvalidBid        *)
(* exactly when the player exists and amount <= current_bid, the       *)
(* answer carrying that current bid; either way no table changes and   *)
(* nothing is broadcast, and the request is finished.                  *)
(* ------------------------------------------------------------------ *)
C9_RejectedBidChangesNothing ==
    [][\A r \in Req :
          BidReads(r) =>
             LET pid == loc'[r].pid
                 a == loc'[r].amount
             IN /\ (result'[r] = "NotFound") <=> (pid \notin DOMAIN players)
                /\ (result'[r] = "InvalidBid") <=>
                      (pid \in DOMAIN players /\ a <= players[pid].current_bid)
                /\ result'[r] = "InvalidBid" =>
                      loc'[r].cur = players[pid].current_bid
                /\ result'[r] \in {"NotFound", "InvalidBid"} =>
                      /\ pc'[r] = "done"
                      /\ store' = store
                      /\ emitted' = emitted ]_vars

\* One request was answered NotFound and another InvalidBid for an
\* amount equal to the player's current bid.
C9_Witness ==
    \E r1, r2 \in Req :
        /\ result[r1] = "NotFound" /\ loc[r1].pid = 99
        /\ result[r2] = "InvalidBid" /\ loc[r2].amount = loc[r2].cur

(* ------------------------------------------------------------------ *)
(* C10  Every bid placement answered with success has exactly one      *)
(* 'bid' ActivityLog entry and exactly one bid_update broadcast, each  *)
(* carrying its player, bidder and amount; and when no request is in   *)
(* flight the 'bid' entries are as many as the successful bids.        *)
(* ------------------------------------------------------------------ *)
C10_SuccessLoggedOnce ==
    /\ \A r \in Successes :
          /\ Cardinality({i \in DOMAIN activity :
                  activity[i] = ActivityEntry("bid", BidderOf(r),
                                              loc[r].amount, loc[r].pid)}) = 1
          /\ Cardinality({i \in DOMAIN emitted :
                  emitted[i] = BidUpdate(loc[r].pid, BidderOf(r),
                                         loc[r].amount)}) = 1
    /\ Quiescent => Cardinality(BidEntries) = Cardinality(Successes)

(* ------------------------------------------------------------------ *)
(* Vocabulary of the poll properties                                   *)
(* ------------------------------------------------------------------ *)
\* The requests whose vote for team t has been committed.
VotesCommitted(t) ==
    {r \in Req : loc[r].team = t /\ (pc[r] = "vote_log" \/ result[r] = "voted")}

\* No run of reset_poll_votes has been taken up yet.
NoResetYet == \A r \in Req : result[r] \notin {"reset", "reset_failed"}

\* This step is run r of reset_poll_votes committing.
ResetCommits(r) == pc[r] = "idle" /\ result'[r] = "reset"

\* This step is r's vote being looked up.
VoteReads(r) == pc[r] = "idle" /\ loc'[r].team # ""

(* ------------------------------------------------------------------ *)
(* C11  Votes are counted one by one: the stored counter of a team is  *)
(* the number of votes committed for it since the last reset, under    *)
(* every interleaving.  Stated for the histories in which no reset has *)
(* run: the counter equals the number of committed votes for the team. *)
(* ------------------------------------------------------------------ *)
C11_VotesCountCommitted ==
    NoResetYet =>
        \A t \in DOMAIN poll :
            /\ poll[t] >= 0
            /\ poll[t] = Cardinality(VotesCommitted(t))

(* ------------------------------------------------------------------ *)
(* C12  A run of reset_poll_votes that commits leaves every team with  *)
(* zero votes and broadcasts one poll_update; the set of teams and     *)
(* every other table stay as they were.                                *)
(* ------------------------------------------------------------------ *)
C12_ResetZeroesOnlyVotes ==
    [][\A r \in Req :
          ResetCommits(r) =>
              /\ DOMAIN poll' = DOMAIN poll
              /\ \A t \in DOMAIN poll' : poll'[t] = 0
              /\ emitted' = Append(emitted, PollUpdate)
              /\ UNCHANGED << players, bids, bidSeq, people, settings,
                              activity >>]_vars

\* A reset has committed after a vote was counted.
C12_Witness ==
    \E r, o \in Req :
        /\ result[r] = "reset"
        /\ result[o] = "voted"
        /\ DOMAIN poll = SeedTeams
        /\ \A t \in DOMAIN poll : poll[t] = 0

(* ------------------------------------------------------------------ *)
(* C13  A vote for a team the poll table does not hold is answered     *)
(* NotFound in its first step, and that step changes no table, logs    *)
(* nothing and broadcasts nothing.                                     *)
(* ------------------------------------------------------------------ *)
C13_UnknownTeamChangesNothing ==
    [][\A r \in Req :
          (VoteReads(r) /\ loc'[r].team \notin DOMAIN poll) =>
              /\ result'[r] = "NotFound"
              /\ pc'[r] = "done"
              /\ store' = store
              /\ emitted' = emitted]_vars

\* A vote for 'Code Trail' was refused while a counted vote stands.
C13_Witness ==
    \E r, o \in Req :
        /\ result[r] = "NotFound"
        /\ loc[r].team = "Code Trail"
        /\ result[o] = "voted"
        /\ poll[loc[o].team] = 1
        /\ Len(activity) = 1

(* ------------------------------------------------------------------ *)
(* Vocabulary of the seeding properties                                *)
(* ------------------------------------------------------------------ *)
\* This step is the last commit of a seed_data call going through.
SeedCompletes(q) ==
    /\ pc[q] = "seed_commit"
    /\ pc'[q] = SeedReturn(q)
    /\ upsets' = upsets
    /\ ~SeedConflict(q)

\* An earlier seeding has populated the store.
Populated == 1 \in DOMAIN settings

\* No other seed_data call was under way when q's began, and none has
\* begun since.
SeedNotOverlapped(q) ==
    loc[q].quiet /\ loc[q].seed = seedNo /\ SeedingAlone(q)

(* ------------------------------------------------------------------ *)
(* C14  Seeding again duplicates nothing: when a seed_data call made   *)
(* on a store an earlier seeding populated, and overlapped by no other *)
(* seed_data call, runs to its last commit, the store holds the seeded *)
(* player ids, the seeded team names, one row per seeded person and    *)
(* the one settings row, as after the first seeding.                   *)
(* ------------------------------------------------------------------ *)
C14_SeedAgainNoDuplicates ==
    [][\A q \in Procs :
          (SeedCompletes(q) /\ Populated /\ SeedNotOverlapped(q)) =>
              /\ DOMAIN players' = PlayerIds
              /\ DOMAIN poll' = SeedTeams
              /\ people' = SeedPeople
              /\ DOMAIN settings' = {1}
              /\ settings' = settings]_vars

\* The server was started a second time and its seeding went through:
\* the bid placed in between is gone, the rows are those of the first.
C14_Witness ==
    /\ Serving
    /\ seedNo = 2
    /\ settings = [k \in {1} |-> 1]
    /\ bidSeq = 1
    /\ bids = << >>
    /\ players = SeededPlayers
    /\ DOMAIN poll = SeedTeams
    /\ people = SeedPeople

(* ------------------------------------------------------------------ *)
(* C15  The auction setting is a singleton: the settings table never   *)
(* holds a row other than id 1, and once the row is there no step,     *)
(* whether a later, a concurrent or a status-triggered seeding or      *)
(* anything else, removes it, adds to it or changes its end_time.      *)
(* ------------------------------------------------------------------ *)
C15_SettingSingleton ==
    [][/\ DOMAIN settings' \subseteq {1}
       /\ Populated => settings' = settings]_vars

\* Two status requests each ran seed_data after the start-up seeding
\* had failed, and the row one of them wrote is the one row stored.
C15_Witness ==
    /\ seedNo = 3
    /\ \A r \in Req : result[r] = "status"
    /\ DOMAIN settings = {1}
    /\ settings[1] \in {2, 3}

(* ------------------------------------------------------------------ *)
(* Vocabulary of the GET properties                                    *)
(* ------------------------------------------------------------------ *)
\* The answers only a GET endpoint gives.
GetResults == {"players", "player", "poll", "activity", "people", "status",
               "error"}

\* The places of api_people's faculty reseed.
PeopleRepairPcs == {"people_delete", "people_insert"}

\* This step is taken by request r while it serves a GET endpoint:
\* the step that takes the request up, or a later step of its handler,
\* seed_data called from api_status included.
GetStep(r) ==
    /\ pc'[r] # pc[r]
    /\ \/ pc[r] \in SeedPcs \cup PeopleRepairPcs \cup {"status_reread"}
       \/ /\ pc[r] = "idle"
          /\ \/ pc'[r] \in {"seed_count", "people_delete"}
             \/ result'[r] \in GetResults
             \/ result'[r] = "NotFound" /\ loc'[r] = loc[r]

StatusReads(r) ==
    /\ pc[r] \in {"idle", "status_reread"}
    /\ pc'[r] = "done"
    /\ result'[r] \in {"status", "error"}

(* ------------------------------------------------------------------ *)
(* C17  api_status answers with total_value equal to the sum of        *)
(* current_bid over the players stored when it asks, which is 0 when   *)
(* the players table is empty; whenever it finds the settings row it   *)
(* answers successfully, an empty players table included.              *)
(* ------------------------------------------------------------------ *)
C17_TotalValueIsSum ==
    [][\A r \in Req :
          StatusReads(r) =>
              /\ Populated => result'[r] = "status"
              /\ result'[r] = "status" =>
                    /\ loc'[r].total = SumCurrentBid(players, DOMAIN players)
                    /\ DOMAIN players = {} => loc'[r].total = 0]_vars

\* api_status answered 0 while another seed_data call had the players
\* table cleared.
C17_Witness ==
    \E r, o \in Req :
        /\ result[r] = "status"
        /\ loc[r].total = 0
        /\ pc[o] = "seed_poll"
        /\ DOMAIN players = {}
        /\ Populated

(* ------------------------------------------------------------------ *)
(* C18  The server serves only on a ready store: the start-up routine  *)
(* goes over to serving only by a seeding that went through to its     *)
(* last commit; a seeding that failed is retried or ends the process.  *)
(* ------------------------------------------------------------------ *)
C18_ServesOnlyAfterSeeding ==
    [][(pc[Main] # "serving" /\ pc'[Main] = "serving")
          => SeedCompletes(Main)]_vars

(* ------------------------------------------------------------------ *)
(* C19  The activity log is in commit order: of two logged bids, the   *)
(* one whose Bid row was committed first (the lower bids.id) has its   *)
(* ActivityLog entry first.                                            *)
(* ------------------------------------------------------------------ *)
C19_LogOrderIsCommitOrder ==
    \A i, j \in BidEntries :
        i < j =>
            \A k, l \in DOMAIN bids :
                (/\ bids[k].bidder_name = activity[i].bidder_name
                 /\ bids[l].bidder_name = activity[j].bidder_name)
                    => bids[k].id < bids[l].id

(* ------------------------------------------------------------------ *)
(* Vocabulary of the bid-record property                               *)
(* ------------------------------------------------------------------ *)
\* Bid row i carries the largest bid_amount among the rows of player p.
IsMaxBid(p, i) ==
    /\ i \in BidsOf(p)
    /\ \A j \in BidsOf(p) : bids[j].bid_amount <= bids[i].bid_amount

(* ------------------------------------------------------------------ *)
(* C20  A player's current_bid and highest_bidder agree with its Bid   *)
(* rows: without a row current_bid is base_price and there is no       *)
(* highest_bidder; with rows they are the bid_amount and bidder_name   *)
(* of a row with the largest bid_amount.                               *)
(* ------------------------------------------------------------------ *)
C20_PlayerAgreesWithBids ==
    \A p \in DOMAIN players :
        IF BidsOf(p) = {}
        THEN /\ players[p].current_bid = players[p].base_price
             /\ players[p].highest_bidder = None
        ELSE \E i \in BidsOf(p) :
                /\ IsMaxBid(p, i)
                /\ players[p].current_bid = bids[i].bid_amount
                /\ players[p].highest_bidder = bids[i].bidder_name

(* ------------------------------------------------------------------ *)
(* Vocabulary of the failed-seeding property                           *)
(* ------------------------------------------------------------------ *)
\* This step is a seed_data call returning through its except clause.
SeedFails(q) ==
    /\ pc[q] \in SeedPcs
    /\ pc'[q] = SeedReturn(q)
    /\ ~SeedCompletes(q)

(* ------------------------------------------------------------------ *)
(* C21  A seed_data call that fails leaves the store as it found it:   *)
(* when a call overlapped by no other seed_data call returns through   *)
(* its except clause, the players that were stored when it began are   *)
(* still stored, and no fewer Bid and Person rows than there were.     *)
(* ------------------------------------------------------------------ *)
C21_FailedSeedKeepsRows ==
    [][\A q \in Procs :
          (SeedFails(q) /\ SeedNotOverlapped(q)) =>
              /\ loc[q].before.players \subseteq DOMAIN players'
              /\ loc[q].before.bids <= Len(bids')
              /\ loc[q].before.people <= Len(people')]_vars

====
